---------------------------- MODULE Spec2Model ----------------------------
(***************************************************************************)
(* A model of the screens of settle-down.                                   *)
(*                                                                         *)
(* The receipt-details screen (src/app/receipt-details.tsx): the editable  *)
(* receipt items and tax, the settle-up group and user lists fetched from  *)
(* the backend, the item-to-user assignment map, the payer, and the        *)
(* transaction sync.  Spec starts with this screen mounted.                *)
(*                                                                         *)
(* The photo-processing flow: the capture screen (src/app/camera.tsx under *)
(* src/unnamed/part_000), the loading screen in its two versions           *)
(* (src/unnamed/part_001 with the connectivity check and the fallback,     *)
(* src/app/loading.tsx without them), and the mount of the receipt-details *)
(* screen from the data navigation carries.  PhotoSpec starts at the       *)
(* capture screen.                                                         *)
(*                                                                         *)
(* SyncSpec runs syncTransaction alone, from every form the screen can     *)
(* hold for a group of three members.                                      *)
(*                                                                         *)
(* Every event handler of the screen is one action.  An async handler is   *)
(* split at its await: the part that runs when the handler is called, and  *)
(* one action per way the awaited request can complete.  Requests in       *)
(* flight are state (groupsRequest, usersRequests, transactions).  No      *)
(* handler reads the body of a POST once fetch has been called with it, so *)
(* the body is state only in the step that issues the POST (posted).       *)
(*                                                                         *)
(* Array indices are 1-based here and 0-based in the source.  The          *)
(* assignment map userSelections is a function over the item indices; the  *)
(* empty string stands for a key the JavaScript object does not hold.      *)
(* Text typed into an input is a sequence of one-character strings.        *)
(***************************************************************************)
EXTENDS Integers, Sequences, FiniteSets, TLC

VARIABLES
    screen,             \* the screen on top: "camera", "loading", "details"; "left" after
                        \* router.back() from the receipt-details screen
    editableItems,      \* useState<ReceiptItem[]>
    editableTaxAmount,  \* useState(0)
    shopInfo,           \* useState({en_shop_name, jp_shop_name})
    groups,             \* useState<SettleUpGroup[]>, the group ids
    selectedGroupId,    \* useState<string>('')
    isLoadingGroups,    \* useState(false)
    groupsError,        \* useState<string | null>(null): TRUE when a message is set
    isDropdownOpen,     \* useState(false)
    groupUsers,         \* useState<GroupUser[]>, the user ids
    isLoadingUsers,     \* useState(false)
    userSelections,     \* useState<{[itemIndex: number]: string}>({})
    paidByUserId,       \* useState<string>('')
    isSyncing,          \* useState(false)
    subtotal,           \* const subtotal = calculateSubtotal(), as last rendered
    total,              \* const total = calculateTotal(), as last rendered
    groupsRequest,      \* TRUE while GET /settle-up/groups/ is in flight
    usersRequests,      \* group id -> number of GET /settle-up/users/ in flight
    transactions,       \* number of POST /settle-up/transactions/ in flight
    posted,             \* the body of the POST the latest step issued, NoBody if none
    attempts,           \* number of POSTs the syncTransaction call in progress has issued
    syncResponse,       \* whether the POST whose alert is up came back ok ("ok") or
                        \* not ("failed": another status, or fetch threw); "" if no
                        \* such alert is up
    alert,              \* the message of the Alert on display, "" when none
    navBacks,           \* number of router.back() calls made
    params,             \* useLocalSearchParams() of the screen on top
    loadingVersion,     \* the file the /loading route is built from
    pc,                 \* the await the photo-processing flow is suspended at
    inCatch,            \* the flow runs inside the catch of checkConnectivityAndProcess
    isConnected,        \* const isConnected of checkConnectivityAndProcess
    responseOk,         \* response.ok of uploadPhoto
    data,               \* const data = await response.json() of uploadPhoto
    isOffline,          \* useState(false) of the loading screen
    statusMessage,      \* useState('Processing Receipt') of the loading screen
    haptics,            \* the haptic cues given in this run of the flow, in order
    saved,              \* number of times this run saved the photo to the library
    uploads,            \* number of upload requests this run issued
    timers,             \* the setTimeout callbacks pending
    navigations,        \* number of router.replace() calls since this run started
    runs                \* number of runs of the flow started

photoVars == <<params, loadingVersion, pc, inCatch, isConnected, responseOk, data,
               isOffline, statusMessage, haptics, saved, uploads, timers, navigations,
               runs>>

vars == <<screen, editableItems, editableTaxAmount, shopInfo, groups, selectedGroupId,
          isLoadingGroups, groupsError, isDropdownOpen, groupUsers, isLoadingUsers,
          userSelections, paidByUserId, isSyncing, subtotal, total, groupsRequest,
          usersRequests, transactions, posted, attempts, syncResponse, alert, navBacks,
          photoVars>>

-----------------------------------------------------------------------------
(* Bounds of the model *)

\* the quantity "+" button is pressed only while the quantity is below this
MaxQuantity == 1
\* user fetches in flight at one time
MaxUsersRequests == 2
\* transaction POSTs in flight at one time (the code's own limit is checked, not assumed)
MaxTransactions == 2

-----------------------------------------------------------------------------
(* The backend's data *)

GroupIds == {"g1", "g2"}

\* the members the users endpoint returns for a group
GroupMembers(groupId) ==
    IF groupId = "g1" THEN <<"u1", "u2">> ELSE <<"u2", "u3">>

\* the lists the groups endpoint may return
GroupsResponses == {<< >>, <<"g2", "g1">>}

Item(order, cost, quantity, discount) ==
    [item_order |-> order, cost |-> cost, quantity |-> quantity, discount |-> discount]

\* the receipts the screen may be opened with (params.data), sorted by item_order
\* as the first render leaves them
LoadedReceipts ==
    { [receipt_items |-> << >>, shop |-> "LADOME", tax_amount |-> 0],
      [receipt_items |-> <<Item(1, 1, 1, 0)>>, shop |-> "LADOME", tax_amount |-> 1],
      [receipt_items |-> <<Item(1, 1, 1, 0), Item(2, 1, 1, 1)>>,
       shop |-> "LADOME", tax_amount |-> 0] }

\* texts a numeric input can be given
Texts == { << >>, <<"a">>, <<"-", "1">>, <<"1">>, <<" ", "1", "x">> }

\* the texts the typing actions enter: one without digits, a negative number, and
\* a number with a space before it and a letter after it
TypedTexts == { <<"a">>, <<"-", "1">>, <<" ", "1", "x">> }

-----------------------------------------------------------------------------
(* The data navigation carries *)

\* const mockReceiptData: the built-in sample dataset
mockReceiptData ==
    [receipt_items |-> <<Item(1, 605, 1, 0), Item(2, 847, 1, 0), Item(3, 1408, 1, 0),
                         Item(4, 1045, 1, 0), Item(5, 385, 1, 0), Item(6, 385, 1, 0)>>,
     shop |-> "LADOME", tax_amount |-> 0]

\* the JSON value null
JSONnull == [null |-> TRUE]

\* a navigation parameter that is not there
Undefined == [kind |-> "undefined", value |-> JSONnull]

\* a text that is no JSON document
MalformedText == [kind |-> "malformed", value |-> JSONnull]

\* JSON.stringify(value): the text of the JSON document of value
JSONstringify(value) == [kind |-> "json", value |-> value]

\* JSON.parse(text): throws for a text that is no JSON document
JSONparse(text) ==
    [threw |-> text.kind # "json", value |-> text.value]

\* the bodies an ok upload response may hold: the receipts and null
UploadResponses == LoadedReceipts \cup {JSONnull}

\* the texts a link to /receipt-details may carry as data
LinkedData == {Undefined, MalformedText, JSONstringify(JSONnull)}
                  \cup {JSONstringify(r) : r \in LoadedReceipts}

\* useLocalSearchParams() of a route reached with no parameter
NoParams == [photoUri |-> "", fromLibrary |-> "", message |-> "", error |-> "",
             data |-> Undefined]

\* a parse whose catch block does not fall back to the sample dataset
receiptDataWithoutFallback(carried) ==
    IF carried.kind # "undefined"
    THEN JSONparse(carried).value
    ELSE mockReceiptData

\* let receiptData = null; try { receiptData = params.data ? JSON.parse(params.data)
\* : mockReceiptData } catch { receiptData = mockReceiptData }
receiptDataOf(carried) ==
    IF carried.kind # "undefined"
    THEN IF JSONparse(carried).threw THEN mockReceiptData ELSE JSONparse(carried).value
    ELSE mockReceiptData

-----------------------------------------------------------------------------
(* Number parsing and formatting *)

DigitChars == <<"0", "1", "2", "3", "4", "5", "6", "7", "8", "9">>

IsDigit(c) == \E d \in 1..10 : DigitChars[d] = c

DigitValue(c) == (CHOOSE d \in 1..10 : DigitChars[d] = c) - 1

RECURSIVE SkipSpaces(_)
SkipSpaces(text) ==
    IF text # << >> /\ Head(text) = " " THEN SkipSpaces(Tail(text)) ELSE text

RECURSIVE ReadDigits(_, _)
\* the value of the longest prefix of digits of text, acc being the value read so far
ReadDigits(text, acc) ==
    IF text # << >> /\ IsDigit(Head(text))
    THEN ReadDigits(Tail(text), 10 * acc + DigitValue(Head(text)))
    ELSE acc

\* JavaScript parseInt: leading blanks skipped, an optional sign, then digits up to
\* the first other character; NaN when no digit is there
parseInt(text) ==
    LET t == SkipSpaces(text)
        negative == t # << >> /\ Head(t) = "-"
        signed == t # << >> /\ Head(t) \in {"-", "+"}
        body == IF signed THEN Tail(t) ELSE t
    IN  IF body = << >> \/ ~IsDigit(Head(body))
        THEN [isNaN |-> TRUE, value |-> 0]
        ELSE [isNaN |-> FALSE,
              value |-> IF negative THEN 0 - ReadDigits(body, 0) ELSE ReadDigits(body, 0)]

\* parseInt(text) || 0
OrZero(parsed) == IF parsed.isNaN THEN 0 ELSE parsed.value

\* a clamp that lets a negative number through
Max0Unclamped(n) == n

\* Math.max(0, n)
Max0(n) == IF n > 0 THEN n ELSE 0

RECURSIVE toString(_)
\* Number.prototype.toString of an integer
toString(n) ==
    IF n < 0 THEN <<"-">> \o toString(0 - n)
    ELSE IF n < 10 THEN <<DigitChars[n + 1]>>
    ELSE toString(n \div 10) \o <<DigitChars[(n % 10) + 1]>>

-----------------------------------------------------------------------------
(* Derived values of the screen *)

RECURSIVE reduceSubtotalDiscountPerUnit(_, _)
\* a reduce that takes the discount off every unit
reduceSubtotalDiscountPerUnit(items, acc) ==
    IF items = << >> THEN acc
    ELSE reduceSubtotalDiscountPerUnit(Tail(items),
             acc + (Head(items).cost - Head(items).discount) * Head(items).quantity)

RECURSIVE reduceSubtotal(_, _)
\* editableItems.reduce((total, item) => total + (item.cost * item.quantity) - item.discount, acc)
reduceSubtotal(items, acc) ==
    IF items = << >> THEN acc
    ELSE reduceSubtotal(Tail(items),
                        acc + (Head(items).cost * Head(items).quantity) - Head(items).discount)

calculateSubtotal(items) == reduceSubtotal(items, 0)

\* a total that leaves the tax out
calculateTotalWithoutTax(items, taxAmount) == calculateSubtotal(items)

calculateTotal(items, taxAmount) == calculateSubtotal(items) + taxAmount

\* userSelections = {}
NoSelections(items) == [i \in DOMAIN items |-> ""]

\* editableItems.filter((_, index) => !userSelections[index]), as indices
unassignedItems(items, selections) == {i \in DOMAIN items : selections[i] = ""}

\* Object.values(userSelections): the values held, in ascending key order
assignedUserIds(selections) == SelectSeq(selections, LAMBDA u : u # "")

RECURSIVE dedupe(_, _)
dedupe(ids, seen) ==
    IF ids = << >> THEN seen
    ELSE IF \E k \in DOMAIN seen : seen[k] = Head(ids)
         THEN dedupe(Tail(ids), seen)
         ELSE dedupe(Tail(ids), Append(seen, Head(ids)))

\* [...new Set(assignedUserIds)]: distinct ids in order of first occurrence
uniqueUserIds(selections) == dedupe(assignedUserIds(selections), << >>)

RECURSIVE sumAssignedFromSecond(_, _, _, _)
\* a loop that skips the first item
sumAssignedFromSecond(items, selections, userId, index) ==
    IF index + 1 > Len(items) THEN 0
    ELSE (IF selections[index + 1] = userId
          THEN (items[index + 1].cost * items[index + 1].quantity)
                   - items[index + 1].discount
          ELSE 0)
         + sumAssignedFromSecond(items, selections, userId, index + 1)

RECURSIVE sumAssigned(_, _, _, _)
\* the forEach that adds (cost * quantity) - discount of the items assigned to userId
sumAssigned(items, selections, userId, index) ==
    IF index > Len(items) THEN 0
    ELSE (IF selections[index] = userId
          THEN (items[index].cost * items[index].quantity) - items[index].discount
          ELSE 0)
         + sumAssigned(items, selections, userId, index + 1)

\* userTotals[userId] || 0: 0 for an id that is no key of userTotals
userTotalOrZero(items, selections, userId) ==
    IF \E k \in DOMAIN uniqueUserIds(selections) : uniqueUserIds(selections)[k] = userId
    THEN sumAssigned(items, selections, userId, 1)
    ELSE 0

\* uniqueUserIds.find(id => id !== paidByUserId), "" for undefined
otherUserId(selections, payer) ==
    LET others == SelectSeq(uniqueUserIds(selections), LAMBDA u : u # payer)
    IN  IF others = << >> THEN "" ELSE Head(others)

\* shopInfo.en_shop_name || shopInfo.jp_shop_name || 'Receipt'
purposeOf(shop) == IF shop # "" THEN shop ELSE "Receipt"

\* a payload that names the first assigned user as the payer
buildPayloadFirstAssignedPays(items, taxAmount, selections, payer, groupId, shop) ==
    [purpose |-> purposeOf(shop),
     total_amount |-> calculateTotal(items, taxAmount),
     tax_amount |-> taxAmount,
     paying_member_id |-> Head(uniqueUserIds(selections)),
     paying_member_total |-> userTotalOrZero(items, selections, payer),
     other_member_id |-> otherUserId(selections, payer),
     other_member_total |->
         userTotalOrZero(items, selections, otherUserId(selections, payer)),
     group_id |-> groupId]

\* the payload object built in syncTransaction
buildPayload(items, taxAmount, selections, payer, groupId, shop) ==
    [purpose |-> purposeOf(shop),
     total_amount |-> calculateTotal(items, taxAmount),
     tax_amount |-> taxAmount,
     paying_member_id |-> payer,
     paying_member_total |-> userTotalOrZero(items, selections, payer),
     other_member_id |-> otherUserId(selections, payer),
     other_member_total |->
         userTotalOrZero(items, selections, otherUserId(selections, payer)),
     group_id |-> groupId]

-----------------------------------------------------------------------------
(* The alerts *)

\* no transaction body
NoBody == [purpose |-> ""]

MsgNoGroup == "Please select a settle-up group."
MsgNoPayer == "Please select who paid for this receipt."
MsgUnassigned == "Please assign all receipt items to users."
MsgTwoUsers == "Items must be assigned to exactly 2 different users."
MsgSuccess == "Transaction synced successfully!"
MsgSyncFailed == "Failed to sync transaction. Please try again."

\* a validation without the payer check
validationAlertNoPayerCheck(groupId, payer, items, selections) ==
    IF groupId = "" THEN MsgNoGroup
    ELSE IF Cardinality(unassignedItems(items, selections)) > 0 THEN MsgUnassigned
    ELSE IF Len(uniqueUserIds(selections)) # 2 THEN MsgTwoUsers
    ELSE ""

\* a validation that looks at the items before the payer
validationAlertItemsFirst(groupId, payer, items, selections) ==
    IF groupId = "" THEN MsgNoGroup
    ELSE IF Cardinality(unassignedItems(items, selections)) > 0 THEN MsgUnassigned
    ELSE IF payer = "" THEN MsgNoPayer
    ELSE IF Len(uniqueUserIds(selections)) # 2 THEN MsgTwoUsers
    ELSE ""

\* a validation that only asks for at least two users
validationAlertAtLeastTwo(groupId, payer, items, selections) ==
    IF groupId = "" THEN MsgNoGroup
    ELSE IF payer = "" THEN MsgNoPayer
    ELSE IF Cardinality(unassignedItems(items, selections)) > 0 THEN MsgUnassigned
    ELSE IF Len(uniqueUserIds(selections)) < 2 THEN MsgTwoUsers
    ELSE ""

\* the message of the first validation of syncTransaction that fails, "" when all pass
validationAlert(groupId, payer, items, selections) ==
    IF groupId = "" THEN MsgNoGroup
    ELSE IF payer = "" THEN MsgNoPayer
    ELSE IF Cardinality(unassignedItems(items, selections)) > 0 THEN MsgUnassigned
    ELSE IF Len(uniqueUserIds(selections)) # 2 THEN MsgTwoUsers
    ELSE ""

-----------------------------------------------------------------------------
(* The initial state: the screen has mounted and its effect has run *)

Init ==
    \E receiptData \in LoadedReceipts :
        /\ screen = "details"
        /\ editableItems = receiptData.receipt_items
        /\ editableTaxAmount = receiptData.tax_amount
        /\ shopInfo = receiptData.shop
        /\ groups = << >>
        /\ selectedGroupId = ""
        /\ isLoadingGroups = TRUE
        /\ groupsError = FALSE
        /\ isDropdownOpen = FALSE
        /\ groupUsers = << >>
        /\ isLoadingUsers = FALSE
        /\ userSelections = NoSelections(receiptData.receipt_items)
        /\ paidByUserId = ""
        /\ isSyncing = FALSE
        /\ subtotal = calculateSubtotal(receiptData.receipt_items)
        /\ total = calculateTotal(receiptData.receipt_items, receiptData.tax_amount)
        /\ groupsRequest = TRUE
        /\ usersRequests = [g \in GroupIds |-> 0]
        /\ transactions = 0
        /\ posted = NoBody
        /\ attempts = 0
        /\ syncResponse = ""
        /\ alert = ""
        /\ navBacks = 0
        /\ params = [NoParams EXCEPT !.data = JSONstringify(receiptData)]
        /\ loadingVersion = "unnamed/part_001"
        /\ pc = "idle"
        /\ inCatch = FALSE
        /\ isConnected = "unknown"
        /\ responseOk = "none"
        /\ data = JSONnull
        /\ isOffline = FALSE
        /\ statusMessage = "Processing Receipt"
        /\ haptics = << >>
        /\ saved = 0
        /\ uploads = 0
        /\ timers = << >>
        /\ navigations = 0
        /\ runs = 0

-----------------------------------------------------------------------------
(* Helpers of the actions *)

\* the screen is mounted and neither an Alert nor the group modal covers it
Interactive == screen = "details" /\ alert = "" /\ ~isDropdownOpen

UsersInFlight ==
    LET RECURSIVE count(_)
        count(S) == IF S = {} THEN 0
                    ELSE LET g == CHOOSE x \in S : TRUE
                         IN  usersRequests[g] + count(S \ {g})
    IN  count(GroupIds)

\* the component re-renders: subtotal and total are computed from the new state
Render ==
    /\ subtotal' = calculateSubtotal(editableItems')
    /\ total' = calculateTotal(editableItems', editableTaxAmount')

\* the component state of an unmounted receipt-details screen: the useState defaults
ResetComponent ==
    /\ editableItems' = << >>
    /\ editableTaxAmount' = 0
    /\ shopInfo' = ""
    /\ groups' = << >>
    /\ selectedGroupId' = ""
    /\ isLoadingGroups' = FALSE
    /\ groupsError' = FALSE
    /\ isDropdownOpen' = FALSE
    /\ groupUsers' = << >>
    /\ isLoadingUsers' = FALSE
    /\ userSelections' = << >>
    /\ paidByUserId' = ""
    /\ isSyncing' = FALSE
    /\ subtotal' = 0
    /\ total' = 0

\* router.back() while the screen is mounted: the component state is discarded
Unmount ==
    /\ screen' = "left"
    /\ ResetComponent

componentVars == <<screen, editableItems, editableTaxAmount, shopInfo, groups,
                   selectedGroupId, isLoadingGroups, groupsError, isDropdownOpen,
                   groupUsers, isLoadingUsers, userSelections, paidByUserId, isSyncing,
                   subtotal, total>>

-----------------------------------------------------------------------------
(* fetchSettleUpGroups *)

\* the Retry button, shown while groupsError is set: the part of fetchSettleUpGroups
\* before its await
FetchSettleUpGroups ==
    /\ Interactive
    /\ groupsError
    /\ isLoadingGroups' = TRUE
    /\ groupsError' = FALSE
    /\ groupsRequest' = TRUE
    /\ posted' = NoBody /\ UNCHANGED <<attempts, syncResponse, photoVars>>
    /\ UNCHANGED <<screen, editableItems, editableTaxAmount, shopInfo, groups,
                   selectedGroupId, isDropdownOpen, groupUsers, isLoadingUsers,
                   userSelections, paidByUserId, isSyncing, subtotal, total,
                   usersRequests, transactions, alert, navBacks>>

\* a default selection that takes the first item
firstGroupId(items) == items[1]

\* const lastGroupId = data.items[data.items.length - 1].id
lastGroupId(items) == items[Len(items)]

\* the groups request returns ok with the list items: the default selection is the
\* last group, whose users are fetched (fetchGroupUsers up to its await)
GroupsResponseOk ==
    \E items \in GroupsResponses :
        /\ groupsRequest
        /\ groupsRequest' = FALSE
        /\ IF items # << >>
           THEN usersRequests' =
                    [usersRequests EXCEPT ![lastGroupId(items)] = @ + 1]
           ELSE UNCHANGED usersRequests
        /\ IF screen = "details"
           THEN /\ groups' = items
                /\ IF items # << >>
                   THEN /\ selectedGroupId' = lastGroupId(items)
                        /\ isLoadingUsers' = TRUE
                   ELSE UNCHANGED <<selectedGroupId, isLoadingUsers>>
                /\ isLoadingGroups' = FALSE
           ELSE UNCHANGED <<groups, selectedGroupId, isLoadingUsers, isLoadingGroups>>
        /\ posted' = NoBody /\ UNCHANGED <<attempts, syncResponse, photoVars>>
        /\ UNCHANGED <<screen, editableItems, editableTaxAmount, shopInfo, groupsError,
                       isDropdownOpen, groupUsers, userSelections, paidByUserId,
                       isSyncing, subtotal, total, transactions, alert, navBacks>>

\* the groups request throws or returns a status that is not ok
GroupsResponseFailed ==
    /\ groupsRequest
    /\ groupsRequest' = FALSE
    /\ IF screen = "details"
       THEN /\ groupsError' = TRUE
            /\ groups' = << >>
            /\ isLoadingGroups' = FALSE
       ELSE UNCHANGED <<groupsError, groups, isLoadingGroups>>
    /\ posted' = NoBody /\ UNCHANGED <<attempts, syncResponse, photoVars>>
    /\ UNCHANGED <<screen, editableItems, editableTaxAmount, shopInfo, selectedGroupId,
                   isDropdownOpen, groupUsers, isLoadingUsers, userSelections,
                   paidByUserId, isSyncing, subtotal, total, usersRequests,
                   transactions, alert, navBacks>>

-----------------------------------------------------------------------------
(* The group picker and fetchGroupUsers *)

\* the picker button is rendered when no error is set and the groups are not loading,
\* and is disabled while the list is empty
ShowGroupPicker ==
    /\ Interactive
    /\ ~groupsError /\ ~isLoadingGroups
    /\ Len(groups) # 0
    /\ isDropdownOpen' = TRUE
    /\ posted' = NoBody /\ UNCHANGED <<attempts, syncResponse, photoVars>>
    /\ UNCHANGED <<screen, editableItems, editableTaxAmount, shopInfo, groups,
                   selectedGroupId, isLoadingGroups, groupsError, groupUsers,
                   isLoadingUsers, userSelections, paidByUserId, isSyncing, subtotal,
                   total, groupsRequest, usersRequests, transactions, alert, navBacks>>

CloseDropdown ==
    /\ screen = "details" /\ alert = "" /\ isDropdownOpen
    /\ isDropdownOpen' = FALSE
    /\ posted' = NoBody /\ UNCHANGED <<attempts, syncResponse, photoVars>>
    /\ UNCHANGED <<screen, editableItems, editableTaxAmount, shopInfo, groups,
                   selectedGroupId, isLoadingGroups, groupsError, groupUsers,
                   isLoadingUsers, userSelections, paidByUserId, isSyncing, subtotal,
                   total, groupsRequest, usersRequests, transactions, alert, navBacks>>

\* a group of the modal's list is pressed; fetchGroupUsers runs up to its await.
\* Neither handler touches userSelections or paidByUserId before the response.
HandleGroupSelection ==
    \E k \in DOMAIN groups :
        /\ screen = "details" /\ alert = "" /\ isDropdownOpen
        /\ UsersInFlight < MaxUsersRequests
        /\ selectedGroupId' = groups[k]
        /\ isDropdownOpen' = FALSE
        /\ isLoadingUsers' = TRUE
        /\ usersRequests' = [usersRequests EXCEPT ![groups[k]] = @ + 1]
        /\ posted' = NoBody /\ UNCHANGED <<attempts, syncResponse, photoVars>>
        /\ UNCHANGED <<screen, editableItems, editableTaxAmount, shopInfo, groups,
                       isLoadingGroups, groupsError, groupUsers, userSelections,
                       paidByUserId, isSyncing, subtotal, total, groupsRequest,
                       transactions, alert, navBacks>>

\* a users request returns ok with the members of its group
UsersResponseOk ==
    \E g \in GroupIds :
        /\ usersRequests[g] > 0
        /\ usersRequests' = [usersRequests EXCEPT ![g] = @ - 1]
        /\ IF screen = "details"
           THEN /\ groupUsers' = GroupMembers(g)
                /\ userSelections' = NoSelections(editableItems)
                /\ paidByUserId' = ""
                /\ isLoadingUsers' = FALSE
           ELSE UNCHANGED <<groupUsers, userSelections, paidByUserId, isLoadingUsers>>
        /\ posted' = NoBody /\ UNCHANGED <<attempts, syncResponse, photoVars>>
        /\ UNCHANGED <<screen, editableItems, editableTaxAmount, shopInfo, groups,
                       selectedGroupId, isLoadingGroups, groupsError, isDropdownOpen,
                       isSyncing, subtotal, total, groupsRequest, transactions, alert,
                       navBacks>>

\* a users request throws or returns a status that is not ok
UsersResponseFailed ==
    \E g \in GroupIds :
        /\ usersRequests[g] > 0
        /\ usersRequests' = [usersRequests EXCEPT ![g] = @ - 1]
        /\ IF screen = "details"
           THEN /\ groupUsers' = << >>
                /\ isLoadingUsers' = FALSE
           ELSE UNCHANGED <<groupUsers, isLoadingUsers>>
        /\ posted' = NoBody /\ UNCHANGED <<attempts, syncResponse, photoVars>>
        /\ UNCHANGED <<screen, editableItems, editableTaxAmount, shopInfo, groups,
                       selectedGroupId, isLoadingGroups, groupsError, isDropdownOpen,
                       userSelections, paidByUserId, isSyncing, subtotal, total,
                       groupsRequest, transactions, alert, navBacks>>

-----------------------------------------------------------------------------
(* Payer and assignments *)

\* a "Paid" button, rendered for each group user while the users are not loading
SetPaidByUserId ==
    \E k \in DOMAIN groupUsers :
        /\ Interactive
        /\ ~isLoadingUsers
        /\ paidByUserId' = groupUsers[k]
        /\ posted' = NoBody /\ UNCHANGED <<attempts, syncResponse, photoVars>>
        /\ UNCHANGED <<screen, editableItems, editableTaxAmount, shopInfo, groups,
                       selectedGroupId, isLoadingGroups, groupsError, isDropdownOpen,
                       groupUsers, isLoadingUsers, userSelections, isSyncing, subtotal,
                       total, groupsRequest, usersRequests, transactions, alert,
                       navBacks>>

\* an assignment button of an item, rendered for each group user
HandleUserSelection ==
    \E itemIndex \in DOMAIN editableItems, k \in DOMAIN groupUsers :
        /\ Interactive
        /\ userSelections' = [userSelections EXCEPT ![itemIndex] = groupUsers[k]]
        /\ posted' = NoBody /\ UNCHANGED <<attempts, syncResponse, photoVars>>
        /\ UNCHANGED <<screen, editableItems, editableTaxAmount, shopInfo, groups,
                       selectedGroupId, isLoadingGroups, groupsError, isDropdownOpen,
                       groupUsers, isLoadingUsers, paidByUserId, isSyncing, subtotal,
                       total, groupsRequest, usersRequests, transactions, alert,
                       navBacks>>

-----------------------------------------------------------------------------
(* Edits of the items and the tax *)

updateItemQuantity(items, index, quantity) ==
    [items EXCEPT ![index].quantity = Max0(OrZero(parseInt(quantity)))]

updateItemCost(items, index, cost) ==
    [items EXCEPT ![index].cost = Max0(OrZero(parseInt(cost)))]

updateTaxAmount(tax) == Max0(OrZero(parseInt(tax)))

editFrame == <<screen, shopInfo, groups, selectedGroupId, isLoadingGroups, groupsError,
               isDropdownOpen, groupUsers, isLoadingUsers, userSelections, paidByUserId,
               isSyncing, groupsRequest, usersRequests, transactions, alert, navBacks>>

\* the "-" button of an item
PressQuantityMinus ==
    \E index \in DOMAIN editableItems :
        /\ Interactive
        /\ editableItems' = updateItemQuantity(editableItems, index,
                                toString(Max0(editableItems[index].quantity - 1)))
        /\ UNCHANGED editableTaxAmount
        /\ Render
        /\ posted' = NoBody /\ UNCHANGED <<attempts, syncResponse, photoVars>>
        /\ UNCHANGED editFrame

\* the "+" button of an item
PressQuantityPlus ==
    \E index \in DOMAIN editableItems :
        /\ Interactive
        /\ editableItems[index].quantity < MaxQuantity
        /\ editableItems' = updateItemQuantity(editableItems, index,
                                toString(editableItems[index].quantity + 1))
        /\ UNCHANGED editableTaxAmount
        /\ Render
        /\ posted' = NoBody /\ UNCHANGED <<attempts, syncResponse, photoVars>>
        /\ UNCHANGED editFrame

\* text typed into the quantity input of an item
TypeQuantity ==
    \E index \in DOMAIN editableItems, text \in TypedTexts :
        /\ Interactive
        /\ editableItems' = updateItemQuantity(editableItems, index, text)
        /\ UNCHANGED editableTaxAmount
        /\ Render
        /\ posted' = NoBody /\ UNCHANGED <<attempts, syncResponse, photoVars>>
        /\ UNCHANGED editFrame

\* text typed into the cost input of an item
TypeCost ==
    \E index \in DOMAIN editableItems, text \in TypedTexts :
        /\ Interactive
        /\ editableItems' = updateItemCost(editableItems, index, text)
        /\ UNCHANGED editableTaxAmount
        /\ Render
        /\ posted' = NoBody /\ UNCHANGED <<attempts, syncResponse, photoVars>>
        /\ UNCHANGED editFrame

\* text typed into the tax input
TypeTax ==
    \E text \in TypedTexts :
        /\ Interactive
        /\ editableTaxAmount' = updateTaxAmount(text)
        /\ UNCHANGED editableItems
        /\ Render
        /\ posted' = NoBody /\ UNCHANGED <<attempts, syncResponse, photoVars>>
        /\ UNCHANGED editFrame

-----------------------------------------------------------------------------
(* syncTransaction *)

\* a sync button that is never disabled
SyncButtonAlwaysEnabled == TRUE

\* the sync button: disabled={isSyncing}
SyncButtonEnabled == ~isSyncing

\* the sync button is pressed and a validation fails: its alert, nothing else
SyncRejected ==
    /\ Interactive
    /\ SyncButtonEnabled
    /\ validationAlert(selectedGroupId, paidByUserId, editableItems, userSelections) # ""
    /\ alert' = validationAlert(selectedGroupId, paidByUserId, editableItems,
                                userSelections)
    /\ posted' = NoBody /\ UNCHANGED <<attempts, syncResponse, photoVars>>
    /\ UNCHANGED <<componentVars, groupsRequest, usersRequests, transactions, navBacks>>

\* the sync button is pressed and every validation passes: syncTransaction up to
\* its await, the payload built and posted
SyncStarted ==
    /\ Interactive
    /\ SyncButtonEnabled
    /\ transactions < MaxTransactions
    /\ validationAlert(selectedGroupId, paidByUserId, editableItems, userSelections) = ""
    /\ isSyncing' = TRUE
    /\ transactions' = transactions + 1
    /\ attempts' = 1
    /\ posted' = buildPayload(editableItems, editableTaxAmount, userSelections,
                            paidByUserId, selectedGroupId, shopInfo)
    /\ UNCHANGED <<screen, editableItems, editableTaxAmount, shopInfo, groups,
                   selectedGroupId, isLoadingGroups, groupsError, isDropdownOpen,
                   groupUsers, isLoadingUsers, userSelections, paidByUserId, subtotal,
                   total, groupsRequest, usersRequests, alert, navBacks, syncResponse,
                   photoVars>>

\* a response handler without the finally block
syncingAfterResponseUnchanged == isSyncing

\* finally { setIsSyncing(false) }
syncingAfterResponse == FALSE

\* an alert chosen without a look at response.ok
responseAlertStatusIgnored(outcome) ==
    IF outcome # "threw" THEN MsgSuccess ELSE MsgSyncFailed

\* if (response.ok) the success alert; else throw, and the catch block's failure alert
responseAlert(outcome) ==
    IF outcome = "ok" THEN MsgSuccess ELSE MsgSyncFailed

\* a transaction POST returns ok: the success alert, then finally setIsSyncing(false)
TransactionResponseOk ==
    /\ transactions > 0
    /\ transactions' = transactions - 1
    /\ attempts' = 0
    /\ syncResponse' = "ok"
    /\ alert' = responseAlert("ok")
    /\ isSyncing' = syncingAfterResponse
    /\ posted' = NoBody
    /\ UNCHANGED <<screen, editableItems, editableTaxAmount, shopInfo, groups,
                   selectedGroupId, isLoadingGroups, groupsError, isDropdownOpen,
                   groupUsers, isLoadingUsers, userSelections, paidByUserId,
                   subtotal, total, groupsRequest, usersRequests, navBacks, photoVars>>

\* a failure handler that also clears the payer and the assignments
TransactionResponseFailedClearing ==
    \E outcome \in {"not ok", "threw"} :
        /\ transactions > 0
        /\ transactions' = transactions - 1
        /\ attempts' = 0
        /\ syncResponse' = "failed"
        /\ alert' = responseAlert(outcome)
        /\ isSyncing' = syncingAfterResponse
        /\ posted' = NoBody
        /\ userSelections' = NoSelections(editableItems)
        /\ paidByUserId' = ""
        /\ UNCHANGED <<screen, editableItems, editableTaxAmount, shopInfo, groups,
                       selectedGroupId, isLoadingGroups, groupsError, isDropdownOpen,
                       groupUsers, isLoadingUsers, subtotal, total, groupsRequest,
                       usersRequests, navBacks, photoVars>>

\* a transaction POST throws or returns a status that is not ok: the failure alert,
\* then finally setIsSyncing(false); no further attempt is made
TransactionResponseFailed ==
    \E outcome \in {"not ok", "threw"} :
        /\ transactions > 0
        /\ transactions' = transactions - 1
        /\ attempts' = 0
        /\ syncResponse' = "failed"
        /\ alert' = responseAlert(outcome)
        /\ isSyncing' = syncingAfterResponse
        /\ posted' = NoBody
        /\ UNCHANGED <<screen, editableItems, editableTaxAmount, shopInfo, groups,
                       selectedGroupId, isLoadingGroups, groupsError, isDropdownOpen,
                       groupUsers, isLoadingUsers, userSelections, paidByUserId,
                       subtotal, total, groupsRequest, usersRequests, navBacks,
                       photoVars>>

-----------------------------------------------------------------------------
(* Alerts and navigation *)

\* an alert with the default button is dismissed
DismissAlert ==
    /\ alert \notin {"", MsgSuccess}
    /\ alert' = ""
    /\ posted' = NoBody /\ syncResponse' = "" /\ UNCHANGED <<attempts, photoVars>>
    /\ UNCHANGED <<componentVars, groupsRequest, usersRequests, transactions, navBacks>>

\* OK of the success alert: router.back()
SuccessAlertOk ==
    /\ alert = MsgSuccess
    /\ alert' = ""
    /\ navBacks' = navBacks + 1
    /\ IF screen = "details" THEN Unmount ELSE UNCHANGED componentVars
    /\ posted' = NoBody /\ syncResponse' = "" /\ UNCHANGED <<attempts, photoVars>>
    /\ UNCHANGED <<groupsRequest, usersRequests, transactions>>

\* the back button of the header: router.back()
PressBack ==
    /\ Interactive
    /\ navBacks' = navBacks + 1
    /\ Unmount
    /\ posted' = NoBody /\ UNCHANGED <<attempts, syncResponse, photoVars>>
    /\ UNCHANGED <<groupsRequest, usersRequests, transactions, alert>>

-----------------------------------------------------------------------------
(* The photo-processing flow: messages and helpers *)

\* runs of the flow started in one behaviour
MaxRuns == 2

MsgTakePictureFailed == "Failed to take picture. Please try again."
MsgLibraryPermission == "This app needs access to your photo library to select images. Please enable photo library access in your device settings."
MsgPickFailed == "Failed to pick photo from library. Please try again."
MsgUploadFailedSaved == "Upload failed. Photo saved to your photo library."
MsgUploadFailed == "Upload failed. Please try again."
MsgUnableToSave == "Upload failed. Unable to save photo."
MsgInternetRequired == "Internet connection required to process photos from your library."
MsgUnableToProcess == "Unable to process photo."
MsgPhotoSaved == "Photo saved to your photo library."
MsgSaveFailed == "Failed to save photo to library."

\* the component state of the receipt-details screen
mountVars == <<editableItems, editableTaxAmount, shopInfo, groups, selectedGroupId,
               isLoadingGroups, groupsError, isDropdownOpen, groupUsers, isLoadingUsers,
               userSelections, paidByUserId, isSyncing, subtotal, total>>

\* what no step of the photo-processing flow touches
requestVars == <<usersRequests, transactions, posted, attempts, syncResponse, navBacks,
                 loadingVersion>>

\* a step of the flow that stays on the screen
StayOnScreen == UNCHANGED <<screen, params, alert, mountVars, groupsRequest, navigations>>

\* const fromLibrary = params.fromLibrary === 'true'
fromLibrary == params.fromLibrary = "true"

\* the receipt-details screen mounts with params.data = carried: the first render and
\* the effect, which loads the receipt and calls fetchSettleUpGroups
MountDetails(carried) ==
    /\ IF receiptDataOf(carried) # JSONnull
       THEN /\ editableItems' = receiptDataOf(carried).receipt_items
            /\ editableTaxAmount' = receiptDataOf(carried).tax_amount
            /\ shopInfo' = receiptDataOf(carried).shop
       ELSE /\ editableItems' = << >>
            /\ editableTaxAmount' = 0
            /\ shopInfo' = ""
    /\ userSelections' = NoSelections(editableItems')
    /\ groups' = << >>
    /\ selectedGroupId' = ""
    /\ isLoadingGroups' = TRUE
    /\ groupsError' = FALSE
    /\ isDropdownOpen' = FALSE
    /\ groupUsers' = << >>
    /\ isLoadingUsers' = FALSE
    /\ paidByUserId' = ""
    /\ isSyncing' = FALSE
    /\ Render
    /\ groupsRequest' = TRUE

\* the receipt-details screen shows 'Failed to load receipt data'
ErrorScreen == screen = "details" /\ receiptDataOf(params.data) = JSONnull

\* router.replace({pathname: '/receipt-details', params: {data: carried}})
NavigateDetails(carried) ==
    /\ screen' = "details"
    /\ params' = [NoParams EXCEPT !.data = carried]
    /\ MountDetails(carried)
    /\ navigations' = navigations + 1
    /\ UNCHANGED alert

\* a router.replace('/') that carries no parameter
NavigateCameraBare(message, error) ==
    /\ screen' = "camera"
    /\ params' = NoParams
    /\ IF screen = "details" THEN ResetComponent ELSE UNCHANGED mountVars
    /\ navigations' = navigations + 1
    /\ UNCHANGED <<alert, groupsRequest>>

\* router.replace({pathname: '/', params: {message, error}}): the capture screen
\* mounts and its effect shows the message or the error in an Alert
NavigateCamera(message, error) ==
    /\ screen' = "camera"
    /\ params' = [NoParams EXCEPT !.message = message, !.error = error]
    /\ alert' = IF message # "" THEN message ELSE IF error # "" THEN error ELSE alert
    /\ IF screen = "details" THEN ResetComponent ELSE UNCHANGED mountVars
    /\ navigations' = navigations + 1
    /\ UNCHANGED groupsRequest

\* handleOfflinePhoto up to its first await
handleOfflinePhoto ==
    pc' = IF fromLibrary THEN "library:Haptics.Warning" ELSE "camera:requestPermissions"

\* a fallback that asks for the library whatever the source of the photo
savePhotoAsFallbackAnySource == pc' = "fallback:requestPermissions"

\* savePhotoAsFallback up to its first await
savePhotoAsFallback ==
    pc' = IF ~fromLibrary THEN "fallback:requestPermissions" ELSE "fallback:Haptics.Error"

\* the catch block of checkConnectivityAndProcess
CatchOfCheck ==
    /\ isOffline' = TRUE
    /\ statusMessage' = "Network Check Failed"
    /\ inCatch' = TRUE
    /\ handleOfflinePhoto

\* an error leaves handleOfflinePhoto or uploadPhoto: the catch block of
\* checkConnectivityAndProcess takes it unless it was thrown inside that block
Rethrow ==
    IF ~inCatch
    THEN CatchOfCheck
    ELSE pc' = "unhandled" /\ UNCHANGED <<isOffline, statusMessage, inCatch>>

-----------------------------------------------------------------------------
(* The capture screen *)

\* the app has opened at the capture screen, built with either loading screen
PhotoInit ==
    /\ screen = "camera"
    /\ params = NoParams
    /\ loadingVersion \in {"app/loading.tsx", "unnamed/part_001"}
    /\ editableItems = << >>
    /\ editableTaxAmount = 0
    /\ shopInfo = ""
    /\ groups = << >>
    /\ selectedGroupId = ""
    /\ isLoadingGroups = FALSE
    /\ groupsError = FALSE
    /\ isDropdownOpen = FALSE
    /\ groupUsers = << >>
    /\ isLoadingUsers = FALSE
    /\ userSelections = << >>
    /\ paidByUserId = ""
    /\ isSyncing = FALSE
    /\ subtotal = 0
    /\ total = 0
    /\ groupsRequest = FALSE
    /\ usersRequests = [g \in GroupIds |-> 0]
    /\ transactions = 0
    /\ posted = NoBody
    /\ attempts = 0
    /\ syncResponse = ""
    /\ alert = ""
    /\ navBacks = 0
    /\ pc = "idle"
    /\ inCatch = FALSE
    /\ isConnected = "unknown"
    /\ responseOk = "none"
    /\ data = JSONnull
    /\ isOffline = FALSE
    /\ statusMessage = "Processing Receipt"
    /\ haptics = << >>
    /\ saved = 0
    /\ uploads = 0
    /\ timers = << >>
    /\ navigations = 0
    /\ runs = 0

\* router.push({pathname: '/loading', params}): the loading screen mounts and its
\* effect starts the flow, which runs up to its first await
PushLoading(library) ==
    /\ screen' = "loading"
    /\ params' = [NoParams EXCEPT !.photoUri = "photo", !.fromLibrary = library]
    /\ runs' = runs + 1
    /\ pc' = IF loadingVersion = "unnamed/part_001" THEN "NetInfo.fetch" ELSE "fetch"
    /\ uploads' = IF loadingVersion = "unnamed/part_001" THEN 0 ELSE 1
    /\ inCatch' = FALSE
    /\ isConnected' = "unknown"
    /\ responseOk' = "none"
    /\ data' = JSONnull
    /\ isOffline' = FALSE
    /\ statusMessage' = "Processing Receipt"
    /\ haptics' = << >>
    /\ saved' = 0
    /\ navigations' = 0
    /\ UNCHANGED <<alert, mountVars, groupsRequest, timers, requestVars>>

\* the capture button: takePictureAsync returns a photo
TakePicture ==
    /\ screen = "camera" /\ alert = ""
    /\ runs < MaxRuns
    /\ PushLoading("")

\* the capture button: takePictureAsync throws
TakePictureFailed ==
    /\ screen = "camera" /\ alert = ""
    /\ alert' = MsgTakePictureFailed
    /\ UNCHANGED <<componentVars, groupsRequest, requestVars, params, pc, inCatch,
                   isConnected, responseOk, data, isOffline, statusMessage, haptics,
                   saved, uploads, timers, navigations, runs>>

\* the library button: permission is granted and a photo is picked
PickFromLibrary ==
    /\ screen = "camera" /\ alert = ""
    /\ runs < MaxRuns
    /\ PushLoading("true")

\* the library button: the permission is not granted, or the picker throws
PickFromLibraryFailed ==
    \E message \in {MsgLibraryPermission, MsgPickFailed} :
        /\ screen = "camera" /\ alert = ""
        /\ alert' = message
        /\ UNCHANGED <<componentVars, groupsRequest, requestVars, params, pc, inCatch,
                       isConnected, responseOk, data, isOffline, statusMessage, haptics,
                       saved, uploads, timers, navigations, runs>>

\* the debug button of the index screen: router.push('/receipt-details')
SkipToReceiptDetails ==
    /\ screen = "camera" /\ alert = ""
    /\ NavigateDetails(Undefined)
    /\ UNCHANGED <<requestVars, pc, inCatch, isConnected, responseOk, data, isOffline,
                   statusMessage, haptics, saved, uploads, timers, runs>>

\* the route /receipt-details is opened by a link that carries any text as data
OpenLink ==
    \E carried \in LinkedData :
        /\ screen = "camera" /\ alert = ""
        /\ NavigateDetails(carried)
        /\ UNCHANGED <<requestVars, pc, inCatch, isConnected, responseOk, data,
                       isOffline, statusMessage, haptics, saved, uploads, timers, runs>>

-----------------------------------------------------------------------------
(* The loading screen with the connectivity check: checkConnectivityAndProcess *)
(* and uploadPhoto.  Each awaited call is one action, which returns or throws. *)

\* a test that takes every value but false for a connection
isConnectedNotFalse(value) == value # "false"

\* const isConnected = netInfoState.isConnected === true
isConnectedIsTrue(value) == value = "true"

\* await NetInfo.fetch(): isConnected is true, false or null, or the call throws
NetInfoFetch ==
    \E outcome \in {"true", "false", "null", "threw"} :
        /\ pc = "NetInfo.fetch"
        /\ isConnected' = outcome
        /\ IF outcome = "threw"
           THEN CatchOfCheck /\ UNCHANGED uploads
           ELSE IF isConnectedIsTrue(outcome)
           THEN /\ pc' = "fetch"
                /\ uploads' = uploads + 1
                /\ UNCHANGED <<isOffline, statusMessage, inCatch>>
           ELSE /\ isOffline' = TRUE
                /\ statusMessage' = "No Internet Connection"
                /\ handleOfflinePhoto
                /\ UNCHANGED <<inCatch, uploads>>
        /\ StayOnScreen
        /\ UNCHANGED <<requestVars, responseOk, data, haptics, saved, timers, runs>>

\* await fetch(.../receipts/receipt-items/): an ok response, another status, or a throw
UploadPhotoFetch ==
    \E outcome \in {"ok", "not ok", "threw"} :
        /\ loadingVersion = "unnamed/part_001"
        /\ pc = "fetch"
        /\ responseOk' = outcome
        /\ IF outcome = "ok" THEN pc' = "response.json" ELSE savePhotoAsFallback
        /\ StayOnScreen
        /\ UNCHANGED <<requestVars, inCatch, isConnected, data, isOffline, statusMessage,
                       haptics, saved, uploads, timers, runs>>

\* await response.json() returns the body
UploadPhotoJson ==
    \E body \in UploadResponses :
        /\ loadingVersion = "unnamed/part_001"
        /\ pc = "response.json"
        /\ data' = body
        /\ pc' = "upload:Haptics.Success"
        /\ StayOnScreen
        /\ UNCHANGED <<requestVars, inCatch, isConnected, responseOk, isOffline,
                       statusMessage, haptics, saved, uploads, timers, runs>>

\* await response.json() throws: the catch block of uploadPhoto
UploadPhotoJsonThrows ==
    /\ loadingVersion = "unnamed/part_001"
    /\ pc = "response.json"
    /\ savePhotoAsFallback
    /\ StayOnScreen
    /\ UNCHANGED <<requestVars, inCatch, isConnected, responseOk, data, isOffline,
                   statusMessage, haptics, saved, uploads, timers, runs>>

\* await Haptics.notificationAsync(Success), then router.replace to /receipt-details
\* with the body; a throw goes to the catch block of uploadPhoto
UploadPhotoHaptic ==
    \E returns \in BOOLEAN :
        /\ pc = "upload:Haptics.Success"
        /\ IF returns
           THEN /\ haptics' = Append(haptics, "success")
                /\ NavigateDetails(JSONstringify(data))
                /\ pc' = "idle"
           ELSE /\ savePhotoAsFallback
                /\ StayOnScreen
                /\ UNCHANGED haptics
        /\ UNCHANGED <<requestVars, inCatch, isConnected, responseOk, data, isOffline,
                       statusMessage, saved, uploads, timers, runs>>

-----------------------------------------------------------------------------
(* savePhotoAsFallback, called by the catch block of uploadPhoto *)

\* await MediaLibrary.requestPermissionsAsync()
FallbackPermissions ==
    \E outcome \in {"granted", "denied", "threw"} :
        /\ pc = "fallback:requestPermissions"
        /\ pc' = IF outcome = "granted" THEN "fallback:saveToLibrary"
                 ELSE IF outcome = "denied" THEN "fallback:Haptics.Error"
                 ELSE "fallback:catch"
        /\ StayOnScreen
        /\ UNCHANGED <<requestVars, inCatch, isConnected, responseOk, data, isOffline,
                        statusMessage, haptics, saved, uploads, timers, runs>>

\* await MediaLibrary.saveToLibraryAsync(photoUri)
FallbackSave ==
    \E returns \in BOOLEAN :
        /\ pc = "fallback:saveToLibrary"
        /\ IF returns
           THEN saved' = saved + 1 /\ pc' = "fallback:Haptics.Saved"
           ELSE UNCHANGED saved /\ pc' = "fallback:catch"
        /\ StayOnScreen
        /\ UNCHANGED <<requestVars, inCatch, isConnected, responseOk, data, isOffline,
                        statusMessage, haptics, uploads, timers, runs>>

\* await Haptics.notificationAsync(Error) after the save, then router.replace to /
FallbackHapticSaved ==
    \E returns \in BOOLEAN :
        /\ pc = "fallback:Haptics.Saved"
        /\ IF returns
           THEN /\ haptics' = Append(haptics, "error")
                /\ NavigateCamera(MsgUploadFailedSaved, "")
                /\ pc' = "idle"
           ELSE /\ pc' = "fallback:catch"
                /\ StayOnScreen
                /\ UNCHANGED haptics
        /\ UNCHANGED <<requestVars, inCatch, isConnected, responseOk, data, isOffline,
                        statusMessage, saved, uploads, timers, runs>>

\* await Haptics.notificationAsync(Error) when the photo was not saved, then
\* router.replace to /
FallbackHapticError ==
    \E returns \in BOOLEAN :
        /\ pc = "fallback:Haptics.Error"
        /\ IF returns
           THEN /\ haptics' = Append(haptics, "error")
                /\ NavigateCamera("", MsgUploadFailed)
                /\ pc' = "idle"
           ELSE /\ pc' = "fallback:catch"
                /\ StayOnScreen
                /\ UNCHANGED haptics
        /\ UNCHANGED <<requestVars, inCatch, isConnected, responseOk, data, isOffline,
                        statusMessage, saved, uploads, timers, runs>>

\* the catch block: await Haptics.notificationAsync(Error), then router.replace to /;
\* a throw leaves savePhotoAsFallback and uploadPhoto
FallbackCatchHaptic ==
    \E returns \in BOOLEAN :
        /\ pc = "fallback:catch"
        /\ IF returns
           THEN /\ haptics' = Append(haptics, "error")
                /\ NavigateCamera("", MsgUnableToSave)
                /\ pc' = "idle"
                /\ UNCHANGED <<isOffline, statusMessage, inCatch>>
           ELSE /\ Rethrow
                /\ StayOnScreen
                /\ UNCHANGED haptics
        /\ UNCHANGED <<requestVars, isConnected, responseOk, data, saved, uploads, timers,
                        runs>>

-----------------------------------------------------------------------------
(* handleOfflinePhoto: handleLibraryPhotoOffline and saveCameraPhotoToLibrary *)

\* await Haptics.notificationAsync(Warning), then setTimeout(router.replace to /)
LibraryHapticWarning ==
    \E returns \in BOOLEAN :
        /\ pc = "library:Haptics.Warning"
        /\ IF returns
           THEN /\ haptics' = Append(haptics, "warning")
                /\ timers' = Append(timers, [pathname |-> "/",
                                              message |-> MsgInternetRequired])
                /\ pc' = "idle"
           ELSE /\ pc' = "library:catch"
                /\ UNCHANGED <<haptics, timers>>
        /\ StayOnScreen
        /\ UNCHANGED <<requestVars, inCatch, isConnected, responseOk, data, isOffline,
                        statusMessage, saved, uploads, runs>>

\* the catch block of handleLibraryPhotoOffline
LibraryCatchHaptic ==
    \E returns \in BOOLEAN :
        /\ pc = "library:catch"
        /\ IF returns
           THEN /\ haptics' = Append(haptics, "error")
                /\ NavigateCamera("", MsgUnableToProcess)
                /\ pc' = "idle"
                /\ UNCHANGED <<isOffline, statusMessage, inCatch>>
           ELSE /\ Rethrow
                /\ StayOnScreen
                /\ UNCHANGED haptics
        /\ UNCHANGED <<requestVars, isConnected, responseOk, data, saved, uploads, timers,
                        runs>>

\* await MediaLibrary.requestPermissionsAsync(): a status that is not granted throws
CameraPermissions ==
    \E outcome \in {"granted", "denied", "threw"} :
        /\ pc = "camera:requestPermissions"
        /\ pc' = IF outcome = "granted" THEN "camera:saveToLibrary" ELSE "camera:catch"
        /\ StayOnScreen
        /\ UNCHANGED <<requestVars, inCatch, isConnected, responseOk, data, isOffline,
                        statusMessage, haptics, saved, uploads, timers, runs>>

\* await MediaLibrary.saveToLibraryAsync(photoUri)
CameraSave ==
    \E returns \in BOOLEAN :
        /\ pc = "camera:saveToLibrary"
        /\ IF returns
           THEN saved' = saved + 1 /\ pc' = "camera:Haptics.Success"
           ELSE UNCHANGED saved /\ pc' = "camera:catch"
        /\ StayOnScreen
        /\ UNCHANGED <<requestVars, inCatch, isConnected, responseOk, data, isOffline,
                        statusMessage, haptics, uploads, timers, runs>>

\* await Haptics.notificationAsync(Success), then setTimeout(router.replace to /)
CameraHapticSuccess ==
    \E returns \in BOOLEAN :
        /\ pc = "camera:Haptics.Success"
        /\ IF returns
           THEN /\ haptics' = Append(haptics, "success")
                /\ timers' = Append(timers, [pathname |-> "/", message |-> MsgPhotoSaved])
                /\ pc' = "idle"
           ELSE /\ pc' = "camera:catch"
                /\ UNCHANGED <<haptics, timers>>
        /\ StayOnScreen
        /\ UNCHANGED <<requestVars, inCatch, isConnected, responseOk, data, isOffline,
                        statusMessage, saved, uploads, runs>>

\* the catch block of saveCameraPhotoToLibrary
CameraCatchHaptic ==
    \E returns \in BOOLEAN :
        /\ pc = "camera:catch"
        /\ IF returns
           THEN /\ haptics' = Append(haptics, "error")
                /\ NavigateCamera("", MsgSaveFailed)
                /\ pc' = "idle"
                /\ UNCHANGED <<isOffline, statusMessage, inCatch>>
           ELSE /\ Rethrow
                /\ StayOnScreen
                /\ UNCHANGED haptics
        /\ UNCHANGED <<requestVars, isConnected, responseOk, data, saved, uploads, timers,
                        runs>>

-----------------------------------------------------------------------------
(* Timers, and the loading screen without the connectivity check *)

\* timers without entry i
RemoveAt(seq, i) == SubSeq(seq, 1, i - 1) \o SubSeq(seq, i + 1, Len(seq))

\* a setTimeout callback runs: router.replace to / with a message, or to
\* /receipt-details with no data
TimerFires ==
    \E i \in DOMAIN timers :
        /\ timers' = RemoveAt(timers, i)
        /\ IF timers[i].pathname = "/"
           THEN NavigateCamera(timers[i].message, "")
           ELSE NavigateDetails(Undefined)
        /\ UNCHANGED <<requestVars, pc, inCatch, isConnected, responseOk, data, isOffline,
                       statusMessage, haptics, saved, uploads, runs>>

\* the timer uploadPhoto of app/loading.tsx sets after its try statement
LegacyTimer == [pathname |-> "/receipt-details", message |-> ""]

\* app/loading.tsx, await fetch(...): a response that is not ok and a throw go to the
\* catch block, router.replace('/'); the timer is set after the try statement
LegacyUploadPhotoFetch ==
    \E outcome \in {"ok", "not ok", "threw"} :
        /\ loadingVersion = "app/loading.tsx"
        /\ pc = "fetch"
        /\ responseOk' = outcome
        /\ IF outcome = "ok"
           THEN /\ pc' = "response.json"
                /\ StayOnScreen
                /\ UNCHANGED timers
           ELSE /\ NavigateCamera("", "")
                /\ timers' = Append(timers, LegacyTimer)
                /\ pc' = "idle"
        /\ UNCHANGED <<requestVars, inCatch, isConnected, data, isOffline, statusMessage,
                       haptics, saved, uploads, runs>>

\* app/loading.tsx, await response.json(): router.replace to /receipt-details with
\* the body, or the catch block when it throws; then the timer is set
LegacyUploadPhotoJson ==
    \E returns \in BOOLEAN, body \in UploadResponses :
        /\ loadingVersion = "app/loading.tsx"
        /\ pc = "response.json"
        /\ IF returns
           THEN data' = body /\ NavigateDetails(JSONstringify(body))
           ELSE UNCHANGED data /\ NavigateCamera("", "")
        /\ timers' = Append(timers, LegacyTimer)
        /\ pc' = "idle"
        /\ UNCHANGED <<requestVars, inCatch, isConnected, responseOk, isOffline,
                       statusMessage, haptics, saved, uploads, runs>>

-----------------------------------------------------------------------------

Next ==
    \/ FetchSettleUpGroups
    \/ GroupsResponseOk
    \/ GroupsResponseFailed
    \/ ShowGroupPicker
    \/ CloseDropdown
    \/ HandleGroupSelection
    \/ UsersResponseOk
    \/ UsersResponseFailed
    \/ SetPaidByUserId
    \/ HandleUserSelection
    \/ PressQuantityMinus
    \/ PressQuantityPlus
    \/ TypeQuantity
    \/ TypeCost
    \/ TypeTax
    \/ SyncRejected
    \/ SyncStarted
    \/ TransactionResponseOk
    \/ TransactionResponseFailed
    \/ DismissAlert
    \/ SuccessAlertOk
    \/ PressBack

Spec == Init /\ [][Next]_vars

\* the steps from the capture screen to the mounted receipt-details screen
PhotoNext ==
    \/ TakePicture
    \/ TakePictureFailed
    \/ PickFromLibrary
    \/ PickFromLibraryFailed
    \/ SkipToReceiptDetails
    \/ OpenLink
    \/ DismissAlert
    \/ NetInfoFetch
    \/ UploadPhotoFetch
    \/ UploadPhotoJson
    \/ UploadPhotoJsonThrows
    \/ UploadPhotoHaptic
    \/ FallbackPermissions
    \/ FallbackSave
    \/ FallbackHapticSaved
    \/ FallbackHapticError
    \/ FallbackCatchHaptic
    \/ LibraryHapticWarning
    \/ LibraryCatchHaptic
    \/ CameraPermissions
    \/ CameraSave
    \/ CameraHapticSuccess
    \/ CameraCatchHaptic
    \/ TimerFires
    \/ LegacyUploadPhotoFetch
    \/ LegacyUploadPhotoJson

PhotoSpec == PhotoInit /\ [][PhotoNext]_vars

-----------------------------------------------------------------------------
(* syncTransaction on its own: the sync button pressed over every form the   *)
(* screen can hold for a group of three members                              *)

\* the users of a group with three members
ThreeMembers == <<"u1", "u2", "u3">>

\* receipts of none to three items of different amounts
SyncReceipts ==
    LET all == <<Item(1, 1, 1, 0), Item(2, 2, 1, 0), Item(3, 4, 1, 1)>>
    IN  { [receipt_items |-> SubSeq(all, 1, n), shop |-> "LADOME", tax_amount |-> tax] :
            n \in 0..3, tax \in {0, 1} }

\* the state syncTransaction reads: the groups are loaded, and either no group is
\* selected (nothing can be chosen then) or a group is, its users are listed, and the
\* payer and the assignments are any the pickers allow
SyncInit ==
    \E receiptData \in SyncReceipts, groupId \in {"", "g1"} :
        /\ screen = "details"
        /\ editableItems = receiptData.receipt_items
        /\ editableTaxAmount = receiptData.tax_amount
        /\ shopInfo = receiptData.shop
        /\ groups = IF groupId = "" THEN << >> ELSE <<"g2", "g1">>
        /\ selectedGroupId = groupId
        /\ isLoadingGroups = FALSE
        /\ groupsError = FALSE
        /\ isDropdownOpen = FALSE
        /\ groupUsers = IF groupId = "" THEN << >> ELSE ThreeMembers
        /\ isLoadingUsers = FALSE
        /\ userSelections \in
               IF groupId = "" THEN {NoSelections(receiptData.receipt_items)}
               ELSE [DOMAIN receiptData.receipt_items ->
                        {ThreeMembers[i] : i \in DOMAIN ThreeMembers} \cup {""}]
        /\ paidByUserId \in
               IF groupId = "" THEN {""}
               ELSE {ThreeMembers[i] : i \in DOMAIN ThreeMembers} \cup {""}
        /\ isSyncing = FALSE
        /\ subtotal = calculateSubtotal(receiptData.receipt_items)
        /\ total = calculateTotal(receiptData.receipt_items, receiptData.tax_amount)
        /\ groupsRequest = FALSE
        /\ usersRequests = [g \in GroupIds |-> 0]
        /\ transactions = 0
        /\ posted = NoBody
        /\ attempts = 0
        /\ syncResponse = ""
        /\ alert = ""
        /\ navBacks = 0
        /\ params = [NoParams EXCEPT !.data = JSONstringify(receiptData)]
        /\ loadingVersion = "unnamed/part_001"
        /\ pc = "idle"
        /\ inCatch = FALSE
        /\ isConnected = "unknown"
        /\ responseOk = "none"
        /\ data = JSONnull
        /\ isOffline = FALSE
        /\ statusMessage = "Processing Receipt"
        /\ haptics = << >>
        /\ saved = 0
        /\ uploads = 0
        /\ timers = << >>
        /\ navigations = 0
        /\ runs = 0

SyncNext ==
    \/ SyncRejected
    \/ SyncStarted
    \/ TransactionResponseOk
    \/ TransactionResponseFailed
    \/ DismissAlert
    \/ SuccessAlertOk

SyncSpec == SyncInit /\ [][SyncNext]_vars

-----------------------------------------------------------------------------
(* Definitions used to state the properties *)

UserIds == {"u1", "u2", "u3"}

\* every assignment map over the current items
AllSelections == [DOMAIN editableItems -> UserIds \cup {""}]

\* the sum of f over the indices of S
RECURSIVE SumOver(_, _)
SumOver(S, f) ==
    IF S = {} THEN 0
    ELSE LET i == CHOOSE x \in S : TRUE IN f[i] + SumOver(S \ {i}, f)

\* cost*quantity of each item
Gross(items) == [i \in DOMAIN items |-> items[i].cost * items[i].quantity]

\* cost*quantity - discount of each item
Net(items) == [i \in DOMAIN items |-> (items[i].cost * items[i].quantity) - items[i].discount]

AssignedTo(selections, userId) == {i \in DOMAIN selections : selections[i] = userId}

\* the sequences that hold the items of a list in some order
Reorderings(items) ==
    {[i \in DOMAIN items |-> items[p[i]]] :
        p \in {q \in [DOMAIN items -> DOMAIN items] :
                  \A a, b \in DOMAIN items : a # b => q[a] # q[b]}}

\* the step calls fetch with no transaction
NoPostIssued == posted' = NoBody /\ transactions' <= transactions

ValidationMessages == {MsgNoGroup, MsgNoPayer, MsgUnassigned, MsgTwoUsers}

\* a step in which a validation alert comes up
ValidationAlertShown == alert' \in ValidationMessages /\ alert' # alert

\* the users the assignments name
Assignees == {userSelections[i] : i \in DOMAIN userSelections} \ {""}

\* a state in which a press of the sync button gets past the first three validations
PassesFirstThree ==
    /\ Interactive
    /\ SyncButtonEnabled
    /\ selectedGroupId # ""
    /\ paidByUserId # ""
    /\ AssignedTo(userSelections, "") = {}

-----------------------------------------------------------------------------
(* C1: pressing Sync issues no POST and leaves isSyncing false when no group *)
(* is selected, when no payer is selected, and when an item is unassigned,   *)
(* each of the three on its own whatever the other two are: in every state   *)
(* in which Sync can be pressed the validation rejects every such            *)
(* combination over the current items, and no step from a blocked state      *)
(* posts or sets isSyncing.                                                  *)

C1_Blocked(groupId, payer, items, selections) ==
    groupId = "" \/ payer = "" \/ unassignedItems(items, selections) # {}

C1_SyncBlocked ==
    /\ []((Interactive /\ SyncButtonEnabled) =>
            \A groupId \in GroupIds \cup {""}, payer \in UserIds \cup {""},
              selections \in AllSelections :
                C1_Blocked(groupId, payer, editableItems, selections)
                    => validationAlert(groupId, payer, editableItems, selections) # "")
    /\ [][C1_Blocked(selectedGroupId, paidByUserId, editableItems, userSelections)
              => /\ NoPostIssued
                 /\ ~isSyncing => ~isSyncing']_vars

\* Sync was pressed with a group and a payer selected and exactly one item unassigned
C1_Witness ==
    /\ alert = MsgUnassigned
    /\ selectedGroupId # "" /\ paidByUserId # ""
    /\ Cardinality(unassignedItems(editableItems, userSelections)) = 1
    /\ Len(editableItems) = 2
    /\ transactions = 0 /\ ~isSyncing

-----------------------------------------------------------------------------
(* C2: the validations run in the order group, payer, all items assigned,   *)
(* some assignment exists; when one or more of them fail, Sync shows exactly *)
(* one alert, the message of the first that fails, the four messages are     *)
(* distinct, and no POST is issued.                                          *)

C2_FirstFailing(groupId, payer, items, selections) ==
    IF groupId = "" THEN MsgNoGroup
    ELSE IF payer = "" THEN MsgNoPayer
    ELSE IF \E i \in DOMAIN items : selections[i] = "" THEN MsgUnassigned
    ELSE IF \A i \in DOMAIN items : selections[i] = "" THEN MsgTwoUsers
    ELSE ""

C2_FailFastOrder ==
    /\ [](/\ Cardinality(ValidationMessages) = 4
          /\ (Interactive /\ SyncButtonEnabled) =>
                \A groupId \in GroupIds \cup {""}, payer \in UserIds \cup {""},
                  selections \in AllSelections :
                    C2_FirstFailing(groupId, payer, editableItems, selections) # ""
                        => validationAlert(groupId, payer, editableItems, selections)
                             = C2_FirstFailing(groupId, payer, editableItems, selections))
    /\ [][/\ C2_FirstFailing(selectedGroupId, paidByUserId, editableItems,
                             userSelections) # "" => NoPostIssued
          /\ ValidationAlertShown
                 => /\ alert = ""
                    /\ alert' = validationAlert(selectedGroupId, paidByUserId,
                                                editableItems, userSelections)
                    /\ NoPostIssued /\ isSyncing' = isSyncing]_vars

\* Sync was pressed with no payer and an unassigned item: the payer's alert is up
C2_Witness ==
    /\ alert = MsgNoPayer
    /\ selectedGroupId # "" /\ paidByUserId = ""
    /\ unassignedItems(editableItems, userSelections) # {}
    /\ transactions = 0

-----------------------------------------------------------------------------
(* C3: Idle -> Syncing -> {Success, Failed}.  isSyncing becomes true only by *)
(* a Sync that passes validation and posts; while the screen stays mounted   *)
(* it becomes false only when the POST completes, and a completed POST ends  *)
(* in the success alert or the failure alert with isSyncing false; leaving   *)
(* the success alert calls router.back().                                    *)

C3_SyncStateMachine ==
    /\ [](screen = "details" => (isSyncing <=> transactions > 0))
    /\ [][/\ (~isSyncing /\ isSyncing')
                => /\ validationAlert(selectedGroupId, paidByUserId, editableItems,
                                      userSelections) = ""
                   /\ transactions' = transactions + 1 /\ posted' # NoBody
          /\ posted' # NoBody => isSyncing'
          /\ (isSyncing /\ ~isSyncing' /\ screen' = "details")
                => /\ transactions' = transactions - 1
                   /\ alert' \in {MsgSuccess, MsgSyncFailed}
          /\ transactions' < transactions
                => /\ alert' \in {MsgSuccess, MsgSyncFailed}
                   /\ ~isSyncing'
          /\ (alert = MsgSuccess /\ alert' # MsgSuccess)
                => navBacks' = navBacks + 1
          /\ (alert = MsgSyncFailed /\ alert' # MsgSyncFailed /\ transactions' = transactions)
                => navBacks' = navBacks /\ screen' = screen]_vars

\* a sync has failed: its alert is up and the button is idle again
C3_Witness ==
    /\ screen = "details" /\ alert = MsgSyncFailed
    /\ ~isSyncing /\ transactions = 0 /\ navBacks = 0

-----------------------------------------------------------------------------
(* C4: at most one transaction POST is in flight at any time.                *)

C4_OnePostInFlight == transactions <= 1

\* a sync is pending while the screen would accept a press and validation passes
C4_Witness ==
    /\ transactions = 1 /\ isSyncing /\ Interactive
    /\ validationAlert(selectedGroupId, paidByUserId, editableItems, userSelections) = ""

-----------------------------------------------------------------------------
(* C5: a failed transaction POST is retried: the failure alert comes up only *)
(* after the sync has made 3 attempts.                                       *)

C5_FailureAfterThreeAttempts ==
    [][(alert' = MsgSyncFailed /\ transactions' < transactions) => attempts = 3]_vars

-----------------------------------------------------------------------------
(* C6: a group switch invalidates the assignment map and the payer: once a  *)
(* different group is selected, no assignment and no payer is left.          *)

C6_InvalidatedOnGroupSwitch ==
    [][(screen' = "details" /\ selectedGroupId # "" /\ selectedGroupId' # selectedGroupId)
          => /\ paidByUserId' = ""
             /\ \A i \in DOMAIN userSelections' : userSelections'[i] = ""]_vars

-----------------------------------------------------------------------------
(* C7: in every payload the total reported for a user is the sum of          *)
(* cost*quantity over exactly the items assigned to that user.               *)

-----------------------------------------------------------------------------
(* C8: the subtotal is the sum of cost*quantity across the items and does   *)
(* not depend on the order of the items.                                     *)

-----------------------------------------------------------------------------
(* C9: the subtotal is never negative.                                       *)

C9_SubtotalNotNegative == subtotal >= 0

-----------------------------------------------------------------------------
(* C10: the displayed total, and the total_amount of every payload sent, is *)
(* the subtotal plus the current tax amount.                                 *)

C10_TotalIsSubtotalPlusTax ==
    /\ total = subtotal + editableTaxAmount
    /\ posted # NoBody =>
          /\ posted.total_amount = subtotal + editableTaxAmount
          /\ posted.tax_amount = editableTaxAmount

\* a payload has been posted after the tax was edited to a positive amount
C10_Witness ==
    /\ posted # NoBody
    /\ Len(editableItems) = 2
    /\ editableTaxAmount > 0
    /\ subtotal > 0

-----------------------------------------------------------------------------
(* C11: an edit of a quantity, cost or tax field with a text that is empty   *)
(* or holds no number stores 0, a negative input is stored as 0, and the     *)
(* minus button stops at 0: in every state the stored quantities, costs and  *)
(* tax are integers >= 0, and wherever the screen takes input every edit    *)
(* the texts allow would store one.                                          *)

\* the text holds no digit at all
NoDigit(text) == \A k \in DOMAIN text : ~IsDigit(text[k])

\* the text is a minus sign followed by digits
Negative(text) ==
    Len(text) > 1 /\ Head(text) = "-" /\ \A k \in 2..Len(text) : IsDigit(text[k])

C11_Stored(text, value) ==
    /\ value \in Nat
    /\ (NoDigit(text) \/ Negative(text)) => value = 0

C11_EditsStoreNonNegative ==
    /\ editableTaxAmount \in Nat
    /\ \A i \in DOMAIN editableItems :
          editableItems[i].quantity \in Nat /\ editableItems[i].cost \in Nat
    /\ Interactive =>
          /\ \A text \in Texts :
                /\ C11_Stored(text, updateTaxAmount(text))
                /\ \A i \in DOMAIN editableItems :
                      /\ C11_Stored(text,
                             updateItemQuantity(editableItems, i, text)[i].quantity)
                      /\ C11_Stored(text, updateItemCost(editableItems, i, text)[i].cost)
          /\ \A i \in DOMAIN editableItems :
                LET minus == updateItemQuantity(editableItems, i,
                                 toString(Max0(editableItems[i].quantity - 1)))[i].quantity
                IN  /\ minus \in Nat
                    /\ editableItems[i].quantity > 0
                          => minus = editableItems[i].quantity - 1

\* the quantity and the cost of an item and the tax have been edited down to 0
C11_Witness ==
    /\ screen = "details"
    /\ editableTaxAmount = 0
    /\ \E i \in DOMAIN editableItems :
          /\ editableItems[i].quantity = 0 /\ editableItems[i].cost = 0
          /\ editableItems[i].discount = 0
    /\ \E receipt \in LoadedReceipts :
          params.data = JSONstringify(receipt) /\ receipt.tax_amount > 0

-----------------------------------------------------------------------------
(* C12: the settlement payload is built once, from the screen state at the   *)
(* moment Sync is pressed: a body is posted only by the step of the press,   *)
(* it holds the payer, group, tax, total and purpose of that moment, the     *)
(* press posts it once, no later step (an edit made while the request is in  *)
(* flight included) posts or reposts a body, and a sync that succeeds has    *)
(* posted exactly once.                                                      *)

C12_PayloadBuiltOnce ==
    [][/\ posted' # NoBody
            => /\ transactions' = transactions + 1
               /\ attempts' = 1
               /\ validationAlert(selectedGroupId, paidByUserId, editableItems,
                                  userSelections) = ""
               /\ posted'.paying_member_id = paidByUserId
               /\ posted'.group_id = selectedGroupId
               /\ posted'.tax_amount = editableTaxAmount
               /\ posted'.total_amount = total
               /\ posted'.purpose = shopInfo
               /\ posted'.other_member_id \in
                      {userSelections[i] : i \in DOMAIN userSelections} \ {paidByUserId}
       /\ transactions' > transactions => posted' # NoBody
       /\ (transactions > 0 /\ transactions' >= transactions) => posted' = NoBody
       /\ (alert' = MsgSuccess /\ transactions' < transactions)
            => attempts = 1 /\ transactions = 1]_vars

\* a request is in flight and the screen has been edited since the press: the
\* state no longer passes the validation the press passed
C12_Witness ==
    /\ transactions = 1 /\ isSyncing /\ screen = "details"
    /\ validationAlert(selectedGroupId, paidByUserId, editableItems, userSelections) # ""
    /\ posted = NoBody

-----------------------------------------------------------------------------
(* Definitions used to state the properties of the photo-processing flow *)

\* the loading screen is the one with the connectivity check
NewFlow == loadingVersion = "unnamed/part_001"

\* the flow is inside savePhotoAsFallback
FallbackPcs == {"fallback:requestPermissions", "fallback:saveToLibrary",
                "fallback:Haptics.Saved", "fallback:Haptics.Error", "fallback:catch"}

\* the flow is inside handleOfflinePhoto
OfflinePcs == {"library:Haptics.Warning", "library:catch", "camera:requestPermissions",
               "camera:saveToLibrary", "camera:Haptics.Success", "camera:catch"}

\* the step calls router.replace from the loading screen
NavigatesFromLoading == screen = "loading" /\ navigations' = navigations + 1

-----------------------------------------------------------------------------
(* C13: CheckConnectivity -> {Online: Upload -> {Success: navigate to        *)
(* details, Failure: Fallback}, Offline: Fallback}.  When the check reports  *)
(* online the upload is issued; once the upload response is ok (and its body *)
(* is read) the flow does not enter the fallback and its navigation goes to  *)
(* receipt-details with the response data; when the upload fails the flow    *)
(* enters the fallback; when offline the flow enters the offline handling    *)
(* and uploads nothing.                                                      *)

C13_Online ==
    (isConnected = "unknown" /\ isConnected' = "true")
        => uploads' = uploads + 1 /\ pc' = "fetch"

C13_Offline ==
    (isConnected = "unknown" /\ isConnected' \in {"false", "null"})
        => uploads' = uploads /\ pc' \in OfflinePcs

C13_UploadFailure ==
    (responseOk = "none" /\ responseOk' \in {"not ok", "threw"}) => pc' \in FallbackPcs

\* the response was ok and its body has been read
C13_UploadSuccess ==
    (responseOk = "ok" /\ pc = "upload:Haptics.Success")
        => /\ pc' \notin FallbackPcs \cup OfflinePcs
           /\ NavigatesFromLoading
                 => screen' = "details" /\ params'.data = JSONstringify(data)

C13_FlowStateMachine ==
    [][NewFlow => /\ C13_Online
                  /\ C13_Offline
                  /\ C13_UploadFailure
                  /\ C13_UploadSuccess]_vars

-----------------------------------------------------------------------------
(* C14: a photo picked from the library is never saved to the device library *)
(* in any branch of the flow, and when the check reports offline the flow    *)
(* returns to the capture screen with the message that an internet           *)
(* connection is required.                                                   *)

C14_LibraryPhotoToldOffline ==
    [][(NewFlow /\ screen = "loading" /\ fromLibrary)
          => /\ saved' = 0
             /\ (isConnected \in {"false", "null"} /\ screen' = "camera")
                   => params'.message = MsgInternetRequired /\ params'.error = ""]_vars

(* C14, as amended: a photo picked from the library is never saved to the    *)
(* device library in any branch of the flow; when the check reports offline  *)
(* and the warning cue is given, the flow returns to the capture screen with *)
(* the message that an internet connection is required, and when the warning *)
(* cue throws it returns with the error 'Unable to process photo.'           *)
C14_LibraryPhotoNeverSaved ==
    [][(NewFlow /\ screen = "loading" /\ fromLibrary)
          => /\ saved' = 0
             /\ (isConnected \in {"false", "null"} /\ screen' = "camera")
                   => \/ /\ params'.message = MsgInternetRequired /\ params'.error = ""
                         /\ haptics'[Len(haptics')] = "warning"
                      \/ /\ params'.error = MsgUnableToProcess /\ params'.message = ""
                         /\ \A k \in DOMAIN haptics' : haptics'[k] # "warning"]_vars

\* a library photo met no connection: the capture screen shows the message, nothing
\* was saved and nothing was uploaded
C14_Witness ==
    /\ NewFlow /\ screen = "camera"
    /\ alert = MsgInternetRequired
    /\ isConnected = "false"
    /\ saved = 0 /\ uploads = 0

-----------------------------------------------------------------------------
(* C15: a photo taken with the camera whose upload cannot complete is saved  *)
(* to the device library before the flow returns to the capture screen.      *)

C15_CameraPhotoPersisted ==
    [][(screen = "loading" /\ ~fromLibrary /\ screen' = "camera") => saved' >= 1]_vars

-----------------------------------------------------------------------------
(* C16: every navigation of the flow comes after a haptic cue of this run    *)
(* (success before receipt-details, error before an error string), and every *)
(* navigation to the capture screen carries exactly one of a message and an  *)
(* error string, which the capture screen shows.                             *)

C16_CueThenNavigate ==
    [][(NewFlow /\ NavigatesFromLoading)
          => /\ haptics' # << >>
             /\ screen' = "details" => haptics'[Len(haptics')] = "success"
             /\ screen' = "camera"
                   => /\ (params'.message # "") # (params'.error # "")
                      /\ alert' \in {params'.message, params'.error} \ {""}
                      /\ params'.error # "" => haptics'[Len(haptics')] = "error"]_vars

\* the photo was saved offline, the success cue threw and the error cue was given:
\* the capture screen shows the error string
C16_Witness ==
    /\ NewFlow /\ screen = "camera"
    /\ params.error = MsgSaveFailed /\ params.message = ""
    /\ alert = MsgSaveFailed
    /\ haptics = <<"error">> /\ saved = 1

-----------------------------------------------------------------------------
(* C17: when the data navigation carries is absent or cannot be parsed, the  *)
(* receipt-details screen takes its items, tax and shop name from the sample *)
(* dataset and does not show the error screen.                               *)

C17_FallsBackToSample ==
    (screen = "details" /\ params.data \in {Undefined, MalformedText})
        => /\ editableItems = mockReceiptData.receipt_items
           /\ editableTaxAmount = mockReceiptData.tax_amount
           /\ shopInfo = mockReceiptData.shop
           /\ total = SumOver(DOMAIN editableItems, Gross(editableItems))
           /\ ~ErrorScreen
           /\ isLoadingGroups /\ groupsRequest

\* the screen was opened with a text that is no JSON document
C17_Witness ==
    /\ screen = "details" /\ params.data = MalformedText
    /\ Len(editableItems) = 6

-----------------------------------------------------------------------------
(* C18: when a groups fetch returns ok with a non-empty list, the selected   *)
(* group becomes the last item of that list and one users fetch is started,  *)
(* for that group and no other; when it returns an empty list or fails, the  *)
(* selected group stays as it was and no users fetch is started.             *)

C18_DefaultGroupIsLast ==
    [][(groupsRequest /\ ~groupsRequest' /\ screen = "details")
          => IF ~groupsError' /\ groups' # << >>
             THEN /\ selectedGroupId' = groups'[Len(groups')]
                  /\ usersRequests' =
                         [usersRequests EXCEPT ![groups'[Len(groups')]] = @ + 1]
                  /\ isLoadingUsers'
             ELSE /\ selectedGroupId' = selectedGroupId
                  /\ usersRequests' = usersRequests]_vars

\* the groups have arrived: the last of them is selected and only its users are
\* being fetched
C18_Witness ==
    /\ screen = "details"
    /\ Len(groups) = 2 /\ groups[1] # groups[2]
    /\ selectedGroupId = groups[2]
    /\ usersRequests[groups[2]] = 1 /\ usersRequests[groups[1]] = 0
    /\ isLoadingUsers /\ groupUsers = << >> /\ ~isLoadingGroups

-----------------------------------------------------------------------------
(* C19: an item may be assigned to the "shared" sentinel; every payload has  *)
(* a shared-items list that holds cost*quantity of each item so assigned,    *)
(* and these amounts are part of no user's total.                            *)

RECURSIVE SharedCosts(_, _, _)
\* cost*quantity of the items assigned to "shared", from item index on
SharedCosts(items, selections, index) ==
    IF index > Len(items) THEN << >>
    ELSE (IF selections[index] = "shared"
          THEN <<items[index].cost * items[index].quantity>>
          ELSE << >>) \o SharedCosts(items, selections, index + 1)

C19_SharedItemsReported ==
    posted # NoBody =>
        /\ "shared_items" \in DOMAIN posted
        /\ posted.shared_items = SharedCosts(editableItems, userSelections, 1)
        /\ posted.paying_member_total + posted.other_member_total =
               SumOver({i \in DOMAIN editableItems : userSelections[i] # "shared"},
                       Gross(editableItems))

-----------------------------------------------------------------------------
(* C20: no payload holds an entry for a user whose attributed cost is zero.  *)

C20_NoZeroEntry ==
    posted # NoBody =>
        /\ posted.paying_member_total # 0
        /\ posted.other_member_total # 0


-----------------------------------------------------------------------------
(* C21: with a group and a payer chosen and every item assigned, a press of  *)
(* the sync button posts only when the assignments name exactly two users;   *)
(* when they name one user, three users, or none because the receipt has no  *)
(* items, the press shows the "exactly 2 different users" alert, posts       *)
(* nothing and leaves isSyncing false. No POST is ever issued with another   *)
(* number of assigned users.                                                 *)
C21_ExactlyTwoUsers ==
    [][ /\ posted' # NoBody => Cardinality(Assignees) = 2
        /\ (PassesFirstThree /\ Cardinality(Assignees) # 2)
              => (alert' = MsgTwoUsers /\ NoPostIssued /\ ~isSyncing')
        /\ (PassesFirstThree /\ Cardinality(Assignees) = 2 /\ vars' # vars)
              => (posted' # NoBody /\ alert' = "") ]_vars

\* three items assigned to three users, and the alert that rejected the press
C21_Witness ==
    /\ alert = MsgTwoUsers
    /\ Cardinality(Assignees) = 3
    /\ paidByUserId # ""
    /\ transactions = 0

-----------------------------------------------------------------------------
(* C22: a transaction POST ends in the success alert exactly when its        *)
(* response is ok: a response with a non-ok status and a fetch that throws   *)
(* both end in the failure alert, and neither navigates. router.back() is    *)
(* called by the OK button of the success alert and otherwise only by the    *)
(* back button of the header; dismissing the failure alert never navigates.  *)
C22_SuccessIffOk ==
    [][ /\ transactions' < transactions
              => /\ syncResponse' \in {"ok", "failed"}
                 /\ syncResponse' = "ok" => alert' = MsgSuccess
                 /\ syncResponse' = "failed" => alert' = MsgSyncFailed
                 /\ navBacks' = navBacks /\ screen' = screen
        /\ alert' = MsgSuccess => syncResponse' = "ok"
        /\ alert' = MsgSyncFailed => syncResponse' = "failed"
        /\ alert = MsgSyncFailed => (navBacks' = navBacks /\ screen' = screen)
        /\ navBacks' # navBacks
              => \/ alert = MsgSuccess /\ alert' = ""
                 \/ Interactive /\ alert' = "" ]_vars

\* a POST has come back with a non-ok status or has thrown, and the failure alert
\* is up
C22_Witness ==
    /\ syncResponse = "failed"
    /\ alert = MsgSyncFailed
    /\ screen = "details"
    /\ navBacks = 0

-----------------------------------------------------------------------------
(* C23: on the loading screen with the connectivity check, an upload request *)
(* is issued only by the step in which NetInfo.fetch() returns isConnected   *)
(* true; when it returns false or null, or throws, that step issues no       *)
(* upload, marks the screen offline and enters the offline handling, and the *)
(* run never issues an upload.                                               *)
C23_UploadOnlyWhenConnected ==
    [][ NewFlow =>
          /\ uploads' > uploads => (pc = "NetInfo.fetch" /\ isConnected' = "true")
          /\ uploads' > 0 => isConnected' = "true"
          /\ (pc = "NetInfo.fetch" /\ pc' # pc /\ isConnected' # "true")
                => (uploads' = uploads /\ isOffline' /\ pc' \in OfflinePcs) ]_vars

\* the connectivity check returned null and the offline handling is running
C23_Witness ==
    /\ NewFlow
    /\ isConnected = "null"
    /\ isOffline
    /\ pc \in OfflinePcs
    /\ uploads = 0

-----------------------------------------------------------------------------
(* C24: in every transaction body posted, paying_member_total plus           *)
(* other_member_total is the subtotal of all items, and total_amount is that *)
(* sum plus tax_amount, whoever of the group was chosen as the payer.        *)
C24_TotalsAddUp ==
    posted # NoBody =>
        /\ posted.paying_member_total + posted.other_member_total
               = calculateSubtotal(editableItems)
        /\ posted.total_amount
               = posted.paying_member_total + posted.other_member_total
                    + posted.tax_amount

-----------------------------------------------------------------------------
(* C25: in every transaction body posted, paying_member_id and               *)
(* other_member_id are both users of the group named by group_id, after any  *)
(* sequence of group switches and of users fetches that succeed or fail.     *)
C25_MembersOfPostedGroup ==
    posted # NoBody =>
        LET members == {GroupMembers(posted.group_id)[i] :
                           i \in DOMAIN GroupMembers(posted.group_id)}
        IN  /\ posted.paying_member_id \in members
            /\ posted.other_member_id \in members

-----------------------------------------------------------------------------
(* C26: while the screen is mounted, whenever no users fetch is in flight    *)
(* the listed users are either none or the users of the selected group, and  *)
(* whenever a users fetch is in flight the users-loading indicator is on,    *)
(* in whatever order the responses of overlapping fetches arrive.            *)
C26_UsersOfSelectedGroup ==
    screen = "details" =>
        /\ UsersInFlight = 0
              => \/ groupUsers = << >>
                 \/ selectedGroupId # "" /\ groupUsers = GroupMembers(selectedGroupId)
        /\ UsersInFlight > 0 => isLoadingUsers

-----------------------------------------------------------------------------
(* C27: on the loading screen of app/loading.tsx, the step that ends a run   *)
(* of uploadPhoto navigates once, to receipt-details with the response data  *)
(* when the upload succeeded and to the capture screen when it failed, and   *)
(* no callback the run left behind navigates after that.                     *)
C27_OneNavigationPerRun ==
    [][ ~NewFlow =>
          /\ (pc # "idle" /\ pc' = "idle")
                => /\ navigations' = navigations + 1
                   /\ screen' \in {"details", "camera"}
                   /\ screen' = "details"
                         => (responseOk' = "ok" /\ params'.data = JSONstringify(data'))
                   /\ responseOk' # "ok" => screen' = "camera"
          /\ Len(timers') < Len(timers)
                => UNCHANGED <<screen, params, navigations>> ]_vars

-----------------------------------------------------------------------------
(* C28: on the loading screen with the connectivity check, no run of the     *)
(* photo flow ends with an error that no handler caught: whichever awaited   *)
(* calls return or throw, the run is never left on the loading screen with   *)
(* its async function rejected and no navigation to come from it.            *)
C28_NoErrorEscapes ==
    NewFlow => ~(pc = "unhandled" /\ screen = "loading" /\ navigations = 0)

-----------------------------------------------------------------------------
(* C29: the step in which a press of Sync is blocked by a validation, the    *)
(* step in which a POST fails, and the step that dismisses either alert      *)
(* leave the items, the tax amount, the assignments, the payer, the selected *)
(* group and the shop as they were; and every body posted, a second press    *)
(* after a failure included, is the payload of the inputs held at the press. *)
C29_FailedSyncKeepsInputs ==
    [][ /\ ( \/ ValidationAlertShown
             \/ transactions' < transactions /\ syncResponse' # "ok"
             \/ alert \in ValidationMessages \cup {MsgSyncFailed} /\ alert' = "" )
              => UNCHANGED <<editableItems, editableTaxAmount, userSelections,
                             paidByUserId, selectedGroupId, shopInfo>>
        /\ posted' # NoBody
              => posted' = buildPayload(editableItems, editableTaxAmount, userSelections,
                                        paidByUserId, selectedGroupId, shopInfo) ]_vars

\* a POST has failed, the failure alert is up, and the inputs still pass the
\* validation: a press after the alert is dismissed posts again
C29_Witness ==
    /\ syncResponse = "failed"
    /\ alert = MsgSyncFailed
    /\ screen = "details"
    /\ validationAlert(selectedGroupId, paidByUserId, editableItems, userSelections) = ""
    /\ transactions = 0

-----------------------------------------------------------------------------
(* C30: on the loading screen with the connectivity check, one run of the    *)
(* photo flow saves the photo to the device library at most once, whichever  *)
(* awaited calls return or throw.                                            *)
C30_SavedAtMostOnce ==
    NewFlow => saved <= 1

=============================================================================
